---- MODULE Spec2Model ----
(***************************************************************************)
(* Dream Pizzas phone-operator ordering console.                           *)
(*                                                                         *)
(* Two implementations live in the repository and are modelled side by     *)
(* side, selected by the variable impl:                                    *)
(*   "class" : src/pizza_order-class.py  (class Order, property setters)   *)
(*   "func"  : src/pizza_order.py        (start_order and helpers)         *)
(*                                                                         *)
(* A line of text is a sequence of one-character strings.  One step of the *)
(* model is everything the program does between two blocking input()       *)
(* calls: it consumes one line and runs until the next prompt.             *)
(* Prices are integer cents.                                               *)
(***************************************************************************)
EXTENDS Integers, Sequences, FiniteSets, TLC

VARIABLES impl, pc, order, addr, pizzas_ordered, ordered_amount,
          out, accepted, outcome

vars == <<impl, pc, order, addr, pizzas_ordered, ordered_amount,
          out, accepted, outcome>>

(***************************************************************************)
(* Program constants.                                                      *)
(***************************************************************************)
DELIVERY_CHARGE == 300

MAX_ORDER_SIZE == 5

MAX_INPUT_WIDTH == 37

TRUNCATED_WIDTH == 34

PIZZA_LIST ==
  << [name |-> "BBQ Italian Sausage", price |-> 850],
     [name |-> "BBQ Pork and Onion", price |-> 850],
     [name |-> "Beef and Onion", price |-> 850],
     [name |-> "Ham and Cheese", price |-> 850],
     [name |-> "Hawaiian", price |-> 850],
     [name |-> "Pepperoni", price |-> 850],
     [name |-> "Simply Cheese", price |-> 850],
     [name |-> "Cheesy Chicken Chorizo and Bacon", price |-> 1350],
     [name |-> "Chicken and Camembert", price |-> 1350],
     [name |-> "Chicken Supreme", price |-> 1350],
     [name |-> "Loaded Supreme", price |-> 1350],
     [name |-> "Mega Meatlovers", price |-> 1350] >>

MENU_SIZE == Len(PIZZA_LIST)

(***************************************************************************)
(* Characters and the string methods the program applies to a line.        *)
(***************************************************************************)
UpperLetters ==
  << "A","B","C","D","E","F","G","H","I","J","K","L","M",
     "N","O","P","Q","R","S","T","U","V","W","X","Y","Z" >>

LowerLetters ==
  << "a","b","c","d","e","f","g","h","i","j","k","l","m",
     "n","o","p","q","r","s","t","u","v","w","x","y","z" >>

DigitChars == << "0","1","2","3","4","5","6","7","8","9" >>

Range(f) == { f[i] : i \in DOMAIN f }

Upper == Range(UpperLetters)

Lower == Range(LowerLetters)

Digit == Range(DigitChars)

\* str.isspace(): the whitespace a console line can carry.
Space == { " ", "\t" }

\* One character of str.lower().
LowerChar(c) ==
  IF c \in Upper
    THEN LowerLetters[CHOOSE i \in DOMAIN UpperLetters : UpperLetters[i] = c]
    ELSE c

\* One character of str.upper().
UpperChar(c) ==
  IF c \in Lower
    THEN UpperLetters[CHOOSE i \in DOMAIN LowerLetters : LowerLetters[i] = c]
    ELSE c

\* str.lower()
StrLower(s) == [i \in 1..Len(s) |-> LowerChar(s[i])]

\* str.strip(): drop leading and trailing whitespace.
StrStrip(s) ==
  LET keep == { i \in 1..Len(s) : s[i] \notin Space }
  IN IF keep = {} THEN << >>
     ELSE LET lo == CHOOSE i \in keep : \A j \in keep : i <= j
              hi == CHOOSE i \in keep : \A j \in keep : i >= j
          IN SubSeq(s, lo, hi)

\* str.title(): a letter is upper-cased when the character before it is not
\* a letter, lower-cased otherwise; other characters are kept.
StrTitle(s) ==
  [i \in 1..Len(s) |->
     IF s[i] \in Upper \cup Lower
       THEN IF i > 1 /\ s[i-1] \in Upper \cup Lower
              THEN LowerChar(s[i]) ELSE UpperChar(s[i])
       ELSE s[i]]

\* The value of a decimal digit character.
DigitVal(c) == (CHOOSE i \in DOMAIN DigitChars : DigitChars[i] = c) - 1

RECURSIVE DigitsValue(_, _)
\* Base-10 value of the digits of s, underscores skipped, acc the value so far.
DigitsValue(s, acc) ==
  IF s = << >> THEN acc
  ELSE IF Head(s) = "_" THEN DigitsValue(Tail(s), acc)
       ELSE DigitsValue(Tail(s), 10 * acc + DigitVal(Head(s)))

\* int(s) for a stripped line: an optional sign, then digits in which single
\* underscores may separate digits.  ok = FALSE is Python's ValueError.
ParseInt(s) ==
  LET signed == s # << >> /\ Head(s) \in {"+", "-"}
      body == IF signed THEN Tail(s) ELSE s
      wellFormed ==
        /\ body # << >>
        /\ \A i \in 1..Len(body) : body[i] \in Digit \cup {"_"}
        /\ body[1] \in Digit
        /\ body[Len(body)] \in Digit
        /\ \A i \in 1..(Len(body) - 1) : ~(body[i] = "_" /\ body[i+1] = "_")
  IN IF wellFormed
       THEN [ok |-> TRUE,
             val |-> IF signed /\ Head(s) = "-"
                       THEN 0 - DigitsValue(body, 0)
                       ELSE DigitsValue(body, 0)]
       ELSE [ok |-> FALSE, val |-> 0]

(***************************************************************************)
(* Regular expressions.  A pattern is a tree; Ends(r, s, P) is the set of  *)
(* positions at which a match of r can end when it starts at a position of *)
(* P.  Positions run from 1 to Len(s) + 1.                                 *)
(***************************************************************************)
Chars(cs) == [t |-> "set", cs |-> cs]

Bol == [t |-> "bol"]

Eol == [t |-> "eol"]

Cat(rs) == [t |-> "cat", rs |-> rs]

Alt(rs) == [t |-> "alt", rs |-> rs]

Opt(r) == [t |-> "opt", r |-> r]

Plus(r) == [t |-> "plus", r |-> r]

\* r{n}
Times(r, n) == Cat([i \in 1..n |-> r])

\* A literal string.
Lit(s) == Cat([i \in 1..Len(s) |-> Chars({s[i]})])

RECURSIVE Ends(_, _, _)
RECURSIVE Closure(_, _, _, _)
RECURSIVE CatEnds(_, _, _)

\* Positions reachable from P by zero or more matches of r.
Closure(r, s, P, seen) ==
  IF P \subseteq seen THEN seen
  ELSE Closure(r, s, Ends(r, s, P \ seen), seen \cup P)

CatEnds(rs, s, P) ==
  IF rs = << >> \/ P = {} THEN P
  ELSE CatEnds(Tail(rs), s, Ends(Head(rs), s, P))

Ends(r, s, P) ==
  CASE r.t = "set" -> { p + 1 : p \in { q \in P : q <= Len(s) /\ s[q] \in r.cs } }
    [] r.t = "bol" -> P \cap {1}
    [] r.t = "eol" -> P \cap {Len(s) + 1}
    [] r.t = "cat" -> CatEnds(r.rs, s, P)
    [] r.t = "alt" -> UNION { Ends(r.rs[k], s, P) : k \in DOMAIN r.rs }
    [] r.t = "opt" -> P \cup Ends(r.r, s, P)
    [] r.t = "plus" -> Closure(r.r, s, Ends(r.r, s, P), {})

\* A test by re.search: the match may start anywhere.
ReMatch_Search(regex, s) == Ends(regex, s, 1..(Len(s) + 1)) # {}

\* re.match(regex, s) is not None: a match that starts at the first
\* character; where it ends is up to the pattern.
ReMatch(regex, s) == Ends(regex, s, {1}) # {}

(***************************************************************************)
(* The grammars of the two programs.  Inside a character class "|" is a    *)
(* literal, "\s" is Space, "\d" is Digit, "\w" is Word, and " -'" is the   *)
(* range of characters from the space to the apostrophe.                   *)
(***************************************************************************)
Word == Lower \cup Upper \cup Digit \cup {"_"}

SpaceToApostrophe == {" ", "!", "\"", "#", "$", "%", "&", "'"}

SpaceOrHyphen == Chars(Space \cup {"-"})

ORDER_TYPE_REGEX == Cat(<< Chars({"d", "|", "p"}), Eol >>)

ORDER_CONFIRM_REGEX == Cat(<< Chars({"y", "|", "n"}), Eol >>)

FINISH_TOKEN(im) ==
  IF im = "class" THEN << "-","-","f" >>
  ELSE << "<","f","i","n","i","s","h",">" >>

CANCEL_TOKEN(im) ==
  IF im = "class" THEN << "-","-","c" >>
  ELSE << "<","c","a","n","c","e","l",">" >>

EXIT_TOKEN(im) ==
  IF im = "class" THEN << "-","-","e" >>
  ELSE << "<","e","x","i","t",">" >>

\* ^([\d]+)|(--f)$ : the alternation binds loosest, so "^" belongs to the
\* first branch only and "$" to the second only.
PIZZA_MENU_REGEX(im) ==
  Alt(<< Cat(<< Bol, Plus(Chars(Digit)) >>),
         Cat(<< Lit(FINISH_TOKEN(im)), Eol >>) >>)

NAME_REGEX(im) ==
  IF im = "class"
    THEN Cat(<< Plus(Chars(Lower \cup Space \cup {"-", "'"})), Eol >>)
    ELSE Cat(<< Plus(Chars(Lower \cup SpaceToApostrophe)), Eol >>)

STREET_REGEX(im) ==
  IF im = "class"
    THEN Cat(<< Bol,
                Opt(Cat(<< Plus(Chars(Lower \cup {"_", "-", "'"})),
                           Chars(Space) >>)),
                Plus(Chars(Digit)), Opt(Chars(Lower)), Chars(Space),
                Plus(Chars(Word \cup Space \cup {"_", "-", "'"})), Eol >>)
    ELSE Cat(<< Bol,
                Opt(Cat(<< Plus(Chars(Lower \cup {"_", "-"})),
                           Chars({" "}) >>)),
                Plus(Chars(Digit)), Opt(Chars(Lower)), Chars({" "}),
                Plus(Chars(Word \cup {" ", "_", "-"})), Eol >>)

SUBURB_TOWN_CITY_REGEX(im) ==
  IF im = "class"
    THEN Cat(<< Opt(Plus(Chars(Word))),
                Plus(Chars(Lower \cup Space \cup {"_", "-", "'"})),
                Opt(Plus(Chars(Word \cup Space \cup {"_", "-", "'"}))),
                Eol >>)
    ELSE Cat(<< Opt(Plus(Chars(Digit))),
                Plus(Chars(Lower \cup {" "})), Eol >>)

\* A postcode grammar without the "$".
POSTCODE_REGEX_Unanchored == Times(Chars(Digit), 4)

POSTCODE_REGEX == Cat(<< Times(Chars(Digit), 4), Eol >>)

\* A number grammar in which the trunk digit or prefix may be left out.
TrunkOrPrefix_Optional ==
  Opt(Alt(<< Chars({"0"}),
             Cat(<< Lit(<< "+","6","4" >>), Opt(SpaceOrHyphen) >>) >>))

\* (0|(\+64(\s|-)?)){1}
TrunkOrPrefix ==
  Alt(<< Chars({"0"}), Cat(<< Lit(<< "+","6","4" >>), Opt(SpaceOrHyphen) >>) >>)

MOBILE_REGEX ==
  Cat(<< Bol, TrunkOrPrefix, Times(Chars(Digit), 2), Opt(SpaceOrHyphen),
         Times(Chars(Digit), 3), Opt(SpaceOrHyphen),
         Times(Chars(Digit), 4), Eol >>)

LANDLINE_REGEX ==
  Cat(<< Bol, TrunkOrPrefix, Times(Chars(Digit), 1), Opt(SpaceOrHyphen),
         Times(Chars(Digit), 3), Opt(SpaceOrHyphen),
         Times(Chars(Digit), 4), Eol >>)

NUMBER_REGEX == Alt(<< MOBILE_REGEX, LANDLINE_REGEX >>)

(***************************************************************************)
(* The field validator.                                                    *)
(***************************************************************************)
\* The class program replaces the tail of an accepted line longer than 37
\* characters by an ellipsis; the functional program returns it unchanged.
Elide(im, s) ==
  IF im = "class" /\ Len(s) > MAX_INPUT_WIDTH
    THEN SubSeq(s, 1, TRUNCATED_WIDTH) \o << ".", ".", "." >>
    ELSE s

\* A normalisation that keeps the letter case.
Normalize_KeepsCase(raw) == StrStrip(raw)

\* input(...).lower().strip()
Normalize(raw) == StrStrip(StrLower(raw))

\* A validator that tries the grammar before the control tokens.
fetch_input_GrammarFirst(im, raw, regex, error_message) ==
  LET user_input == Normalize(raw)
  IN IF user_input = << >>
       THEN [kind |-> "error", value |-> << >>, err |-> "Required field."]
     ELSE IF ReMatch(regex, user_input)
       THEN [kind |-> "value", value |-> Elide(im, user_input), err |-> ""]
     ELSE IF user_input = EXIT_TOKEN(im)
       THEN [kind |-> "exit", value |-> << >>, err |-> ""]
     ELSE IF user_input = CANCEL_TOKEN(im)
       THEN [kind |-> "cancel", value |-> << >>, err |-> ""]
     ELSE [kind |-> "error", value |-> << >>, err |-> error_message]

\* One pass of the validation loop on the line raw.  kind is
\*   "error"  : the message err is shown and the prompt repeats,
\*   "exit"   : sys.exit(),
\*   "cancel" : the order is cancelled,
\*   "value"  : the loop is left and value is returned.
fetch_input(im, raw, regex, error_message) ==
  LET user_input == Normalize(raw)
  IN IF user_input = << >>
       THEN [kind |-> "error", value |-> << >>, err |-> "Required field."]
     ELSE IF user_input = EXIT_TOKEN(im)
       THEN [kind |-> "exit", value |-> << >>, err |-> ""]
     ELSE IF user_input = CANCEL_TOKEN(im)
       THEN [kind |-> "cancel", value |-> << >>, err |-> ""]
     ELSE IF ReMatch(regex, user_input)
       THEN [kind |-> "value", value |-> Elide(im, user_input), err |-> ""]
     ELSE [kind |-> "error", value |-> << >>, err |-> error_message]

(***************************************************************************)
(* The lines the operator may type at each prompt.                         *)
(***************************************************************************)
\* Length of the over-long lines the operator may type.
LongLen == 38

Repeat(c, n) == [i \in 1..n |-> c]

\* Lines tried at every prompt: nothing, blanks, and the control tokens of
\* both programs in mixed case and padded with blanks.
CommonInputs ==
  { << >>, << " " >>,
    << " ","-","-","C"," " >>, << "-","-","e" >>,
    << "<","C","a","n","c","e","l",">"," " >>, << "<","E","x","i","t",">" >> }

OrderTypeInputs ==
  CommonInputs \cup { << "D" >>, << "p" >>, << "|" >>, << "x" >>, << "d","p" >> }

NameInputs ==
  CommonInputs \cup
    { << "O","'","B","r","i","e","n" >>,
      << "o","'","b","r","i","e","n","-","s","m","i","t","h" >>,
      << "o","'","b","r","i","e","n","1" >>,
      Repeat("a", LongLen) }

StreetInputs ==
  CommonInputs \cup
    { << "6","a"," ","h","a","n","o","v","e","r" >>,
      << "h","a","n","o","v","e","r" >> }

SuburbInputs ==
  CommonInputs \cup { << "k","e","n","m","u","r","e" >>, << "9","0","1","8" >> }

TownInputs ==
  CommonInputs \cup { << "d","u","n","e","d","i","n" >>, << "9","0","1","8" >> }

PostcodeInputs ==
  CommonInputs \cup
    { << "9","0","1","8" >>, << "9","0","1" >>,
      << "9","0","1","8","0" >>, << "9","0","a","8" >> }

PhoneInputs ==
  CommonInputs \cup
    { << "+","6","4"," ","2","1"," ","1","2","3"," ","1","2","3","4" >>,
      << "0","2","1","-","1","2","3","-","1","2","3","4" >>,
      << "0","4"," ","1","2","3"," ","1","2","3","4" >>,
      << "1","2","3"," ","1","2","3","4" >>,
      << "0","2","1","1","2","3","1","2","3","4","5" >> }

PizzaInputs ==
  CommonInputs \cup
    { << "1" >>, << "8" >>, << "1","2" >>, << "0" >>, << "1","3" >>,
      << "1","a" >>, << "1","_","2" >>, << "x" >>,
      Repeat("0", LongLen - 2) \o << "1","3" >>,
      << "-","-","F" >>, << "<","f","i","n","i","s","h",">" >> }

ConfirmInputs ==
  CommonInputs \cup { << "Y" >>, << "n" >>, << "|" >>, << "y","e","s" >> }

(***************************************************************************)
(* The order under construction.                                           *)
(***************************************************************************)
\* A mapping with no keys: an object none of whose attributes is assigned.
Unset == [k \in {} |-> TRUE]

\* f with key k bound to v.
Put(f, k, v) == [x \in DOMAIN f \cup {k} |-> IF x = k THEN v ELSE f[x]]

Prompts ==
  { "is_delivery", "customer_name", "street", "suburb", "town", "postcode",
    "phone", "pizzas_ordered", "confirm" }

\* The key under which a selected pizza is counted: the Pizza tuple itself in
\* the class program, its 0-based menu position in the functional program.
PizzaKey(im, option_number) ==
  IF im = "class" THEN PIZZA_LIST[option_number + 1] ELSE option_number

\* Position of key in the insertion-ordered dict d, 0 when absent.
IndexOf(d, key) ==
  IF \E k \in DOMAIN d : d[k].pizza = key
    THEN CHOOSE k \in DOMAIN d : d[k].pizza = key
    ELSE 0

\* A dict update that stores 1 instead of adding 1.
Increment_Overwrite(d, key) ==
  LET k == IndexOf(d, key)
  IN IF k = 0 THEN Append(d, [pizza |-> key, amount |-> 1])
     ELSE [d EXCEPT ![k].amount = 1]

\* d[key] += 1, or d[key] = 1 on KeyError.
Increment(d, key) ==
  LET k == IndexOf(d, key)
  IN IF k = 0 THEN Append(d, [pizza |-> key, amount |-> 1])
     ELSE [d EXCEPT ![k].amount = @ + 1]

\* Unit price of the pizza counted under key.
PriceOf(im, key) ==
  IF im = "class" THEN key.price ELSE PIZZA_LIST[key + 1].price

RECURSIVE Cost(_, _)
\* Sum over the selected lines of unit price times amount.
Cost(im, d) ==
  IF d = << >> THEN 0
  ELSE PriceOf(im, Head(d).pizza) * Head(d).amount + Cost(im, Tail(d))

\* A total that charges delivery on every order.
Total_AlwaysCharged(im, is_delivery, d) == DELIVERY_CHARGE + Cost(im, d)

\* Total of an order: the class program starts from the delivery charge and
\* adds each line, the functional program adds the charge after the lines.
Total(im, is_delivery, d) ==
  IF im = "class"
    THEN (IF is_delivery THEN DELIVERY_CHARGE ELSE 0) + Cost(im, d)
    ELSE Cost(im, d) + (IF is_delivery THEN DELIVERY_CHARGE ELSE 0)

(***************************************************************************)
(* The receipt.  A receipt is the sequence of its printed lines; a line is *)
(* a record of its text fields: label (a constant of the program), value   *)
(* (text taken from the order) and amount (a formatted number).            *)
(***************************************************************************)
RECURSIVE Decimal(_)
\* The decimal digits of a natural number, as '{}'.format(n) writes them.
Decimal(n) ==
  IF n < 10 THEN << DigitChars[n + 1] >>
  ELSE Decimal(n \div 10) \o << DigitChars[(n % 10) + 1] >>

\* '{:>w}': s right-aligned in a field of w characters.
PadLeft(s, w) ==
  IF Len(s) >= w THEN s ELSE [i \in 1..(w - Len(s)) |-> " "] \o s

\* '{:>6.2f}' of an amount given in cents.
Money(cents) ==
  PadLeft(Decimal(cents \div 100) \o << "." >>
            \o << DigitChars[((cents % 100) \div 10) + 1],
                  DigitChars[(cents % 10) + 1] >>,
          6)

\* '(x{})'.format(amount) if amount > 1 else ''
Multiplier(amount) ==
  IF amount > 1 THEN << "(", "x" >> \o Decimal(amount) \o << ")" >>
  ELSE << >>

ReceiptLine(kind, label, value, amount) ==
  [kind |-> kind, label |-> label, value |-> value, amount |-> amount]

\* The item_subtotal setter of the class program: for each pizza ordered,
\* its name, the amount and the cost of that amount.
item_subtotal(value) ==
  [i \in 1..Len(value) |->
     [name |-> value[i].pizza.name,
      amount |-> value[i].amount,
      subtotal |-> value[i].pizza.price * value[i].amount]]

\* The customer block of the class receipt.
CustomerDetails(o) ==
  << ReceiptLine("field", "CUSTOMER NAME:", o["customer_name"], << >>),
     ReceiptLine("field",
                 IF o["is_delivery"] THEN "ORDER TYPE: Delivery"
                 ELSE "ORDER TYPE: Pick-up",
                 << >>, << >>) >>
  \o (IF o["is_delivery"]
        THEN << ReceiptLine("field", "CONTACT NUMBER:", o["phone"], << >>),
                ReceiptLine("field", "DELIVERY ADDRESS:",
                            o["address"].street, << >>),
                ReceiptLine("field", "", o["address"].suburb, << >>),
                ReceiptLine("field", "",
                            o["address"].town \o << " " >>
                              \o o["address"].postcode, << >>) >>
        ELSE << >>)

\* The text Order.__str__ builds from the attributes of self: the customer
\* block, a line for each entry of item_subtotal, the subtotal (the total
\* less the delivery charge of a delivery), the surcharge of a delivery, and
\* the total.
Receipt(self) ==
  LET o == self.order
      order_details ==
        [i \in 1..Len(self.item_subtotal) |->
           ReceiptLine("item", self.item_subtotal[i].name,
                       Multiplier(self.item_subtotal[i].amount),
                       Money(self.item_subtotal[i].subtotal))]
      subtotal == IF o["is_delivery"] THEN o["total"] - DELIVERY_CHARGE
                  ELSE o["total"]
      order_subtotal ==
        << ReceiptLine("amount", "Subtotal", << >>, Money(subtotal)) >>
        \o (IF o["is_delivery"]
              THEN << ReceiptLine("amount", "Delivery surcharge", << >>,
                                  Money(DELIVERY_CHARGE)) >>
              ELSE << >>)
      order_total == ReceiptLine("amount", "Total", << >>, Money(o["total"]))
  IN << ReceiptLine("title", "ORDER CONFIRMATION", << >>, << >>) >>
     \o CustomerDetails(o)
     \o << ReceiptLine("title", "ORDER SUMMARY", << >>, << >>) >>
     \o order_details
     \o order_subtotal
     \o << order_total >>

\* A rendering that keeps the subtotal it computed as the order's total.
Order_str_WritesSubtotal(self) ==
  [receipt |-> Receipt(self),
   self |-> [self EXCEPT !.order =
               Put(self.order, "total",
                   IF self.order["is_delivery"]
                     THEN self.order["total"] - DELIVERY_CHARGE
                     ELSE self.order["total"])]]

\* Order.__str__ of the class program: the receipt of the order self, and
\* self as the call leaves it.  The method assigns to locals only and reads
\* no line.
Order_str(self) == [receipt |-> Receipt(self), self |-> self]

\* print_receipt of the functional program, up to its confirm prompt: the
\* lines printed for the given name, dict of amounts by menu index, order
\* type, address triple and phone.  The total is summed while the item lines
\* are printed; subtotal and surcharge are printed for a delivery only.
print_receipt(name, ordered, is_delivery, address, phone) ==
  LET customer_details ==
        << ReceiptLine("field", "CUSTOMER NAME:", name, << >>) >>
        \o (IF is_delivery
              THEN << ReceiptLine("field", "ORDER TYPE: Delivery", << >>, << >>),
                      ReceiptLine("field", "CONTACT NUMBER:", phone, << >>),
                      ReceiptLine("field", "DELIVERY ADDRESS:", address[1], << >>),
                      ReceiptLine("field", "", address[2], << >>),
                      ReceiptLine("field", "", address[3], << >>) >>
              ELSE << ReceiptLine("field", "ORDER TYPE: Pick-up", << >>, << >>) >>)
      items ==
        [i \in 1..Len(ordered) |->
           ReceiptLine("item", PIZZA_LIST[ordered[i].pizza + 1].name,
                       Multiplier(ordered[i].amount),
                       Money(ordered[i].amount
                               * PIZZA_LIST[ordered[i].pizza + 1].price))]
      total == Cost("func", ordered)
  IN << ReceiptLine("title", "ORDER CONFIRMATION", << >>, << >>) >>
     \o customer_details
     \o << ReceiptLine("title", "ORDER SUMMARY", << >>, << >>) >>
     \o items
     \o (IF is_delivery
           THEN << ReceiptLine("amount", "Subtotal", << >>, Money(total)),
                   ReceiptLine("amount", "Delivery surcharge", << >>,
                               Money(DELIVERY_CHARGE)),
                   ReceiptLine("amount", "Total", << >>,
                               Money(total + DELIVERY_CHARGE)) >>
           ELSE << ReceiptLine("amount", "Total", << >>, Money(total)) >>)

\* A loop that runs one round too many.
KeepSelecting_OneMore(amount) == amount <= MAX_ORDER_SIZE + 1

\* The condition of the selection loop.
KeepSelecting(amount) == amount < MAX_ORDER_SIZE + 1

\* option_number in range(1, MENU_SIZE + 1)
ValidOption(n) == n \in 1..MENU_SIZE

\* A loop that takes the finish token before any pizza is selected.
Select_FinishAnytime(im, d, amount, value) ==
  LET n == ParseInt(value)
  IN IF ~n.ok
       THEN [d |-> d, amount |-> amount, next |-> "done", msg |-> ""]
     ELSE IF ValidOption(n.val)
       THEN [d |-> Increment(d, PizzaKey(im, n.val - 1)),
             amount |-> amount + 1,
             next |-> IF KeepSelecting(amount + 1) THEN "again" ELSE "done",
             msg |-> IF im = "class" THEN "Selected" ELSE ""]
     ELSE [d |-> d, amount |-> amount, next |-> "again",
           msg |-> "Invalid range."]

\* What one accepted line does to the selection loop.  value is the line the
\* validator returned.  next is "again" (prompt again), "done" (loop left).
Select(im, d, amount, value) ==
  LET n == ParseInt(value)
  IN IF ~n.ok
       THEN IF amount = 1
              THEN [d |-> d, amount |-> amount, next |-> "again",
                    msg |-> "You must select at least one pizza."]
              ELSE [d |-> d, amount |-> amount, next |-> "done", msg |-> ""]
     ELSE IF ValidOption(n.val)
       THEN [d |-> Increment(d, PizzaKey(im, n.val - 1)),
             amount |-> amount + 1,
             next |-> IF KeepSelecting(amount + 1) THEN "again" ELSE "done",
             msg |-> IF im = "class" THEN "Selected" ELSE ""]
     ELSE [d |-> d, amount |-> amount, next |-> "again",
           msg |-> "Invalid range."]

(***************************************************************************)
(* Steps.                                                                  *)
(***************************************************************************)
Init ==
  /\ impl \in {"class", "func"}
  /\ pc = "splash"
  /\ order = Unset
  /\ addr = Unset
  /\ pizzas_ordered = << >>
  /\ ordered_amount = 0
  /\ out = << >>
  /\ accepted = << >>
  /\ outcome = "none"

\* An exit that the session loop catches like a finished order.
Exit_Restarts ==
  /\ pc' = "splash"
  /\ out' = << >>
  /\ UNCHANGED <<impl, order, addr, pizzas_ordered, ordered_amount,
                 accepted, outcome>>

\* sys.exit(): SystemExit is caught nowhere, the process ends.
Exit ==
  /\ pc' = "exited"
  /\ out' = << >>
  /\ UNCHANGED <<impl, order, addr, pizzas_ordered, ordered_amount,
                 accepted, outcome>>

\* The end-of-order box: the outcome is shown and the console waits for Enter.
confirm(submit) ==
  /\ pc' = "notice"
  /\ outcome' = IF submit THEN "submitted" ELSE "cancelled"
  /\ out' = << IF submit THEN "ORDER SUBMITTED" ELSE "ORDER CANCELLED" >>
  /\ UNCHANGED <<impl, order, addr, pizzas_ordered, ordered_amount, accepted>>

\* An error box, then the same prompt again.
Reprompt(message) ==
  /\ out' = << message >>
  /\ UNCHANGED <<impl, pc, order, addr, pizzas_ordered, ordered_amount,
                 accepted, outcome>>

\* What the caller's loop does with the result r of one pass of the
\* validator; accept is the caller's step on the returned value.
Prompt(r, accept) ==
  CASE r.kind = "exit" -> Exit
    [] r.kind = "cancel" -> confirm(FALSE)
    [] r.kind = "error" -> Reprompt(r.err)
    [] r.kind = "value" -> accept

\* The selection loop starts: an empty dict, counter 1.
StartSelection ==
  /\ pizzas_ordered' = << >>
  /\ ordered_amount' = 1

\* A session loop that goes on with the previous order object.
print_splash_KeepsOrder ==
  /\ pc = "splash"
  /\ \E raw \in CommonInputs :
       /\ pc' = "is_delivery"
       /\ out' = << >>
       /\ accepted' = << >>
       /\ outcome' = "none"
       /\ UNCHANGED <<impl, order, addr, pizzas_ordered, ordered_amount>>

\* Splash screen: any line continues, and a new order is started.
print_splash ==
  /\ pc = "splash"
  /\ \E raw \in CommonInputs :
       /\ pc' = "is_delivery"
       /\ order' = Unset
       /\ addr' = Unset
       /\ pizzas_ordered' = << >>
       /\ ordered_amount' = 0
       /\ out' = << >>
       /\ accepted' = << >>
       /\ outcome' = "none"
       /\ UNCHANGED impl

AcceptOrderType(value) ==
  /\ order' = Put(order, "is_delivery", value = << "d" >>)
  /\ pc' = "customer_name"
  /\ accepted' = Append(accepted, "is_delivery")
  /\ out' = << >>
  /\ UNCHANGED <<impl, addr, pizzas_ordered, ordered_amount, outcome>>

read_is_delivery(raw) ==
  LET r == fetch_input(impl, raw, ORDER_TYPE_REGEX, "Invalid order type.")
  IN Prompt(r, AcceptOrderType(r.value))

set_is_delivery ==
  /\ pc = "is_delivery"
  /\ \E raw \in OrderTypeInputs : read_is_delivery(raw)

\* An order that asks every customer for an address.
AfterName_AlwaysAddress(is_delivery) == "street"

\* Address and phone are asked for a delivery only.
AfterName(is_delivery) == IF is_delivery THEN "street" ELSE "pizzas_ordered"

AcceptName(value) ==
  /\ order' = Put(order, "customer_name", StrTitle(value))
  /\ accepted' = Append(accepted, "customer_name")
  /\ out' = << >>
  /\ pc' = AfterName(order["is_delivery"])
  /\ IF AfterName(order["is_delivery"]) = "pizzas_ordered"
       THEN StartSelection
       ELSE UNCHANGED <<pizzas_ordered, ordered_amount>>
  /\ UNCHANGED <<impl, addr, outcome>>

read_customer_name(raw) ==
  LET r == fetch_input(impl, raw, NAME_REGEX(impl), "Invalid character in name.")
  IN Prompt(r, AcceptName(r.value))

set_customer_name ==
  /\ pc = "customer_name"
  /\ \E raw \in NameInputs : read_customer_name(raw)

AcceptStreet(value) ==
  /\ addr' = Put(addr, "street", StrTitle(value))
  /\ pc' = "suburb"
  /\ accepted' = Append(accepted, "street")
  /\ out' = << >>
  /\ UNCHANGED <<impl, order, pizzas_ordered, ordered_amount, outcome>>

read_street(raw) ==
  LET r == fetch_input(impl, raw, STREET_REGEX(impl), "Invalid street address.")
  IN Prompt(r, AcceptStreet(r.value))

set_street ==
  /\ pc = "street"
  /\ \E raw \in StreetInputs : read_street(raw)

AcceptSuburb(value) ==
  /\ addr' = Put(addr, "suburb", StrTitle(value))
  /\ pc' = "town"
  /\ accepted' = Append(accepted, "suburb")
  /\ out' = << >>
  /\ UNCHANGED <<impl, order, pizzas_ordered, ordered_amount, outcome>>

read_suburb(raw) ==
  LET r == fetch_input(impl, raw, SUBURB_TOWN_CITY_REGEX(impl), "Invalid suburb.")
  IN Prompt(r, AcceptSuburb(r.value))

set_suburb ==
  /\ pc = "suburb"
  /\ \E raw \in SuburbInputs : read_suburb(raw)

\* A town step that goes on to the phone number, skipping the postcode.
AcceptTown_SkipsPostcode(value) ==
  /\ addr' = Put(addr, "town", StrTitle(value))
  /\ pc' = "phone"
  /\ accepted' = Append(accepted, "town")
  /\ out' = << >>
  /\ UNCHANGED <<impl, order, pizzas_ordered, ordered_amount, outcome>>

AcceptTown(value) ==
  /\ addr' = Put(addr, "town", StrTitle(value))
  /\ pc' = "postcode"
  /\ accepted' = Append(accepted, "town")
  /\ out' = << >>
  /\ UNCHANGED <<impl, order, pizzas_ordered, ordered_amount, outcome>>

read_town(raw) ==
  LET r == fetch_input(impl, raw, SUBURB_TOWN_CITY_REGEX(impl), "Invalid town/city.")
  IN Prompt(r, AcceptTown(r.value))

set_town ==
  /\ pc = "town"
  /\ \E raw \in TownInputs : read_town(raw)

\* The address is assembled when its last part is accepted: a named tuple of
\* four parts in the class program, a triple whose last part joins town and
\* postcode in the functional program.
AcceptPostcode(value) ==
  /\ order' = Put(order, "address",
                  IF impl = "class"
                    THEN [street |-> addr["street"], suburb |-> addr["suburb"],
                          town |-> addr["town"], postcode |-> value]
                    ELSE << addr["street"], addr["suburb"],
                            addr["town"] \o << " " >> \o value >>)
  /\ addr' = Unset
  /\ pc' = "phone"
  /\ accepted' = Append(accepted, "postcode")
  /\ out' = << >>
  /\ UNCHANGED <<impl, pizzas_ordered, ordered_amount, outcome>>

read_postcode(raw) ==
  LET r == fetch_input(impl, raw, POSTCODE_REGEX, "Invalid postcode.")
  IN Prompt(r, AcceptPostcode(r.value))

set_postcode ==
  /\ pc = "postcode"
  /\ \E raw \in PostcodeInputs : read_postcode(raw)

AcceptPhone(value) ==
  /\ order' = Put(order, "phone", value)
  /\ pc' = "pizzas_ordered"
  /\ accepted' = Append(accepted, "phone")
  /\ out' = << >>
  /\ StartSelection
  /\ UNCHANGED <<impl, addr, outcome>>

read_phone(raw) ==
  LET r == fetch_input(impl, raw, NUMBER_REGEX, "Invalid phone number.")
  IN Prompt(r, AcceptPhone(r.value))

set_phone ==
  /\ pc = "phone"
  /\ \E raw \in PhoneInputs : read_phone(raw)

\* What follows the selection loop up to the confirm prompt.  The class
\* program sets item_subtotal, which computes the total, and prints the order;
\* the functional program calls print_receipt, which sums the total itself.
Completion(im, o, d) ==
  LET is_delivery == o["is_delivery"]
      priced == Put(o, "total", Total(im, is_delivery, d))
  IN IF im = "class"
       THEN LET r == Order_str([order |-> priced,
                                item_subtotal |-> item_subtotal(d)])
            IN [order |-> r.self.order, receipt |-> r.receipt]
       ELSE [order |-> priced,
             receipt |-> print_receipt(o["customer_name"], d, is_delivery,
                                       IF is_delivery THEN o["address"]
                                       ELSE << >>,
                                       IF is_delivery THEN o["phone"]
                                       ELSE << >>)]

\* A selection loop that forgets each pizza it is given.
AcceptSelection_Forgets(value) ==
  \E r \in { Select(impl, pizzas_ordered, ordered_amount, value) } :
     /\ IF r.next = "done"
          THEN \E c \in { Completion(impl, order, r.d) } :
                 /\ order' = c.order
                 /\ pc' = "confirm"
                 /\ accepted' = accepted \o << "pizzas_ordered", "receipt" >>
                 /\ out' = c.receipt
          ELSE /\ out' = IF r.msg = "" THEN << >> ELSE << r.msg >>
               /\ UNCHANGED <<pc, order, accepted>>
     /\ UNCHANGED <<impl, addr, outcome, pizzas_ordered, ordered_amount>>

\* A line returned by the validator at the selection prompt.  When the loop
\* is left the total is computed, the receipt is rendered and the confirm
\* prompt is shown.
AcceptSelection(value) ==
  \E r \in { Select(impl, pizzas_ordered, ordered_amount, value) } :
     /\ pizzas_ordered' = r.d
     /\ ordered_amount' = r.amount
     /\ IF r.next = "done"
          THEN \E c \in { Completion(impl, order, r.d) } :
                 /\ order' = c.order
                 /\ pc' = "confirm"
                 /\ accepted' = accepted \o << "pizzas_ordered", "receipt" >>
                 /\ out' = c.receipt
          ELSE /\ out' = IF r.msg = "" THEN << >> ELSE << r.msg >>
               /\ UNCHANGED <<pc, order, accepted>>
     /\ UNCHANGED <<impl, addr, outcome>>

read_selection(raw) ==
  LET r == fetch_input(impl, raw, PIZZA_MENU_REGEX(impl), "Invalid pizza number.")
  IN Prompt(r, AcceptSelection(r.value))

set_pizzas_ordered ==
  /\ pc = "pizzas_ordered"
  /\ \E raw \in PizzaInputs : read_selection(raw)

\* A confirmation that submits on every answer but "n".
AcceptConfirm_UnlessNo(value) ==
  /\ confirm(value # << "n" >>)

AcceptConfirm(value) ==
  /\ confirm(value = << "y" >>)

read_confirm(raw) ==
  LET r == fetch_input(impl, raw, ORDER_CONFIRM_REGEX, "Invalid input.")
  IN Prompt(r, AcceptConfirm(r.value))

confirm_order ==
  /\ pc = "confirm"
  /\ \E raw \in ConfirmInputs : read_confirm(raw)

\* An end-of-order box after which nothing catches the interrupt.
dismiss_notice_Ends ==
  /\ pc = "notice"
  /\ \E raw \in CommonInputs :
       /\ pc' = "exited"
       /\ out' = << >>
       /\ UNCHANGED <<impl, order, addr, pizzas_ordered, ordered_amount,
                      accepted, outcome>>

\* The end-of-order box is dismissed by any line; KeyboardInterrupt unwinds to
\* the session loop, which shows the splash screen again.
dismiss_notice ==
  /\ pc = "notice"
  /\ \E raw \in CommonInputs :
       /\ pc' = "splash"
       /\ out' = << >>
       /\ UNCHANGED <<impl, order, addr, pizzas_ordered, ordered_amount,
                      accepted, outcome>>

Next ==
  \/ print_splash
  \/ set_is_delivery
  \/ set_customer_name
  \/ set_street
  \/ set_suburb
  \/ set_town
  \/ set_postcode
  \/ set_phone
  \/ set_pizzas_ordered
  \/ confirm_order
  \/ dismiss_notice

Spec == Init /\ [][Next]_vars

\* A step of an operator who never types the exit token.
LiveNext == Next /\ pc' # "exited"

\* The lines of a set that are shorter than the long line.
OrdinaryLines(lines) == { raw \in lines : Len(raw) < LongLen }

\* The lines tried at prompt p.
LinesOf(p) ==
  CASE p = "is_delivery" -> OrderTypeInputs
    [] p = "customer_name" -> NameInputs
    [] p = "street" -> StreetInputs
    [] p = "suburb" -> SuburbInputs
    [] p = "town" -> TownInputs
    [] p = "postcode" -> PostcodeInputs
    [] p = "phone" -> PhoneInputs
    [] p = "pizzas_ordered" -> PizzaInputs
    [] p = "confirm" -> ConfirmInputs

\* The grammar that prompt p of program im hands to the validator.
GrammarOf(im, p) ==
  CASE p = "is_delivery" -> ORDER_TYPE_REGEX
    [] p = "customer_name" -> NAME_REGEX(im)
    [] p = "street" -> STREET_REGEX(im)
    [] p \in {"suburb", "town"} -> SUBURB_TOWN_CITY_REGEX(im)
    [] p = "postcode" -> POSTCODE_REGEX
    [] p = "phone" -> NUMBER_REGEX
    [] p = "pizzas_ordered" -> PIZZA_MENU_REGEX(im)
    [] p = "confirm" -> ORDER_CONFIRM_REGEX

\* For each program and prompt, the values the validator returns for the
\* lines of ordinary length tried there.
ReturnedValues ==
  [im \in {"class", "func"} |->
     [p \in Prompts |->
        { fetch_input(im, raw, GrammarOf(im, p), "").value :
            raw \in { l \in OrdinaryLines(LinesOf(p)) :
                        fetch_input(im, l, GrammarOf(im, p), "").kind
                          = "value" } }]]

\* A line of ordinary length that the prompt takes: the validator returns it
\* and, at the selection prompt, the loop answers with neither "Invalid
\* range." nor "You must select at least one pizza.".
AcceptedLine ==
  /\ pc \in Prompts
  /\ \E value \in ReturnedValues[impl][pc] :
       CASE pc = "is_delivery" -> AcceptOrderType(value)
         [] pc = "customer_name" -> AcceptName(value)
         [] pc = "street" -> AcceptStreet(value)
         [] pc = "suburb" -> AcceptSuburb(value)
         [] pc = "town" -> AcceptTown(value)
         [] pc = "postcode" -> AcceptPostcode(value)
         [] pc = "phone" -> AcceptPhone(value)
         [] pc = "pizzas_ordered" ->
              /\ AcceptSelection(value)
              /\ out' \notin
                   { << "Invalid range." >>,
                     << "You must select at least one pizza." >> }
         [] pc = "confirm" -> AcceptConfirm(value)

\* The console with an operator who never types the exit token and who, at
\* a prompt, does not type refused lines forever.
LiveSpec == Init /\ [][LiveNext]_vars /\ WF_vars(AcceptedLine)

(***************************************************************************)
(* Properties.                                                             *)
(***************************************************************************)
\* The grammar a prompt validates against.
RegexAt(p) ==
  CASE p = "is_delivery" -> ORDER_TYPE_REGEX
    [] p = "customer_name" -> NAME_REGEX(impl)
    [] p = "street" -> STREET_REGEX(impl)
    [] p \in {"suburb", "town"} -> SUBURB_TOWN_CITY_REGEX(impl)
    [] p = "postcode" -> POSTCODE_REGEX
    [] p = "phone" -> NUMBER_REGEX
    [] p = "pizzas_ordered" -> PIZZA_MENU_REGEX(impl)
    [] p = "confirm" -> ORDER_CONFIRM_REGEX

\* The lines tried at a prompt.
InputsAt(p) ==
  CASE p = "is_delivery" -> OrderTypeInputs
    [] p = "customer_name" -> NameInputs
    [] p = "street" -> StreetInputs
    [] p = "suburb" -> SuburbInputs
    [] p = "town" -> TownInputs
    [] p = "postcode" -> PostcodeInputs
    [] p = "phone" -> PhoneInputs
    [] p = "pizzas_ordered" -> PizzaInputs
    [] p = "confirm" -> ConfirmInputs

\* The step taken when raw is typed at prompt p.
ReadAt(p, raw) ==
  CASE p = "is_delivery" -> read_is_delivery(raw)
    [] p = "customer_name" -> read_customer_name(raw)
    [] p = "street" -> read_street(raw)
    [] p = "suburb" -> read_suburb(raw)
    [] p = "town" -> read_town(raw)
    [] p = "postcode" -> read_postcode(raw)
    [] p = "phone" -> read_phone(raw)
    [] p = "pizzas_ordered" -> read_selection(raw)
    [] p = "confirm" -> read_confirm(raw)

RECURSIVE Units(_)
\* Number of units in the selected lines.
Units(d) == IF d = << >> THEN 0 ELSE Head(d).amount + Units(Tail(d))

\* Amount selected of the pizza at 1-based menu position i.
AmountOf(d, i) ==
  LET k == IndexOf(d, PizzaKey(impl, i - 1))
  IN IF k = 0 THEN 0 ELSE d[k].amount

IsDigits(s) == s # << >> /\ \A i \in 1..Len(s) : s[i] \in Digit

\* The line as the operator means it: letter case and surrounding blanks
\* do not count.
Typed(raw) == StrStrip(StrLower(raw))

\* The line is none of the tokens the validator tests before the grammar.
ReachesGrammar(raw) ==
  Typed(raw) \notin {<< >>, EXIT_TOKEN(impl), CANCEL_TOKEN(impl)}

\* C1 (as claimed): in the class program, whatever line is typed at whatever
\* prompt, a value returned by fetch_input matches the grammar of that prompt.
C1_ReturnedValueMatches ==
  (impl = "class" /\ pc \in Prompts) =>
    \A raw \in InputsAt(pc) :
      LET r == fetch_input(impl, raw, RegexAt(pc), "")
      IN r.kind = "value" => ReMatch(RegexAt(pc), r.value)

\* C2 (as claimed): at the selection prompt a line that is neither all digits
\* nor the finish token is answered by "Invalid pizza number." and the same
\* prompt; the selected lines and the counter do not change.
C2_NonNumericRejected ==
  [][ \A raw \in PizzaInputs :
        ( /\ pc = "pizzas_ordered"
          /\ ReachesGrammar(raw)
          /\ ~IsDigits(Typed(raw))
          /\ Typed(raw) # FINISH_TOKEN(impl)
          /\ read_selection(raw) )
        => ( /\ pc' = "pizzas_ordered"
             /\ out' = << "Invalid pizza number." >>
             /\ UNCHANGED <<pizzas_ordered, ordered_amount>> ) ]_vars

\* C3: never more than 5 units are selected; while the selection prompt is
\* shown fewer than 5 units are selected (the counter is one ahead of them),
\* so the prompt is left in the step that accepts the 5th unit.
C3_AtMostFiveUnits ==
  /\ Units(pizzas_ordered) <= MAX_ORDER_SIZE
  /\ pc = "pizzas_ordered" =>
       /\ Units(pizzas_ordered) < MAX_ORDER_SIZE
       /\ ordered_amount = Units(pizzas_ordered) + 1

\* C3 witness: the confirm prompt is reached with exactly 5 units, the loop
\* having ended on the 5th selection.
C3_Witness ==
  /\ pc = "confirm"
  /\ Units(pizzas_ordered) = MAX_ORDER_SIZE
  /\ ordered_amount = MAX_ORDER_SIZE + 1

\* The selection sub-flow of the current order has returned.
SelectionReturned == \E k \in DOMAIN accepted : accepted[k] = "pizzas_ordered"

\* C4: the finish token typed at the selection prompt is refused while no
\* unit is selected (error box, same prompt, lines unchanged) and ends the
\* sub-flow with the lines unchanged once a unit is selected; whenever the
\* sub-flow has returned at least one unit is selected.
C4_FinishNeedsOneUnit ==
  /\ [][ \A raw \in PizzaInputs :
           ( /\ pc = "pizzas_ordered"
             /\ Typed(raw) = FINISH_TOKEN(impl)
             /\ read_selection(raw) )
           => IF Units(pizzas_ordered) = 0
                THEN /\ pc' = "pizzas_ordered"
                     /\ out' = << "You must select at least one pizza." >>
                     /\ UNCHANGED <<pizzas_ordered, ordered_amount>>
                ELSE /\ pc' = "confirm"
                     /\ SelectionReturned'
                     /\ UNCHANGED pizzas_ordered ]_vars
  /\ [](SelectionReturned => Units(pizzas_ordered) >= 1)

\* C4 witness: the sub-flow has returned before the 5th unit, which only the
\* finish branch does.
C4_Witness ==
  /\ pc = "confirm"
  /\ SelectionReturned
  /\ Units(pizzas_ordered) \in 1..(MAX_ORDER_SIZE - 1)

\* The line an operator types for menu position i.
DecimalLine(i) ==
  IF i < 10 THEN << DigitChars[i + 1] >>
  ELSE << DigitChars[(i \div 10) + 1], DigitChars[(i % 10) + 1] >>

\* C5: at the selection prompt, for every menu position i in 1..12 the line
\* "i" is accepted and raises the amount of pizza i by exactly 1 (from 0 to 1
\* on its first selection), leaving every other amount as it was; typed a
\* second time it raises the amount by 2 in all.
C5_SelectionCountsOneUnit ==
  pc = "pizzas_ordered" =>
    \A i \in 1..MENU_SIZE :
      LET v == fetch_input(impl, DecimalLine(i), PIZZA_MENU_REGEX(impl), "")
          once == Select(impl, pizzas_ordered, ordered_amount, v.value)
          twice == Select(impl, once.d, once.amount, v.value)
      IN /\ v.kind = "value"
         /\ AmountOf(once.d, i) = AmountOf(pizzas_ordered, i) + 1
         /\ \A j \in 1..MENU_SIZE \ {i} :
              AmountOf(once.d, j) = AmountOf(pizzas_ordered, j)
         /\ Units(once.d) = Units(pizzas_ordered) + 1
         /\ once.next = "again" =>
              /\ AmountOf(twice.d, i) = AmountOf(pizzas_ordered, i) + 2
              /\ \A j \in 1..MENU_SIZE \ {i} :
                   AmountOf(twice.d, j) = AmountOf(pizzas_ordered, j)

\* C5 witness: one pizza selected twice next to another selected once, with
\* room for more.
C5_Witness ==
  /\ pc = "pizzas_ordered"
  /\ \E i, j \in 1..MENU_SIZE :
       /\ i # j
       /\ AmountOf(pizzas_ordered, i) = 2
       /\ AmountOf(pizzas_ordered, j) = 1
       /\ Units(pizzas_ordered) = 3

\* C6 (as claimed): at the selection prompt an all-digit line whose value is
\* outside 1..12 is answered by "Invalid range." and the same prompt; the
\* selected lines and the counter do not change.
C6_OutOfRangeRejected ==
  [][ \A raw \in PizzaInputs :
        ( /\ pc = "pizzas_ordered"
          /\ IsDigits(Typed(raw))
          /\ ParseInt(Typed(raw)).val \notin 1..MENU_SIZE
          /\ read_selection(raw) )
        => ( /\ pc' = "pizzas_ordered"
             /\ out' = << "Invalid range." >>
             /\ UNCHANGED <<pizzas_ordered, ordered_amount>> ) ]_vars

RECURSIVE MenuCost(_, _)
\* Sum over the menu positions 1..n of unit price times amount selected.
MenuCost(d, n) ==
  IF n = 0 THEN 0
  ELSE PIZZA_LIST[n].price * AmountOf(d, n) + MenuCost(d, n - 1)

\* The order is complete: its total has been computed.
Completed == "total" \in DOMAIN order

\* C7: the total of a completed order is the sum over the selected lines of
\* unit price times amount, plus the delivery charge of 3.00 exactly when the
\* order is a delivery.
C7_TotalIsCostPlusCharge ==
  Completed =>
    order["total"] =
      MenuCost(pizzas_ordered, MENU_SIZE)
        + (IF order["is_delivery"] THEN 300 ELSE 0)

\* C7 witness: two pizzas at 8.50 and one at 13.50, delivered: 33.50.
C7_Witness ==
  /\ pc = "confirm"
  /\ Completed
  /\ order["is_delivery"]
  /\ AmountOf(pizzas_ordered, 1) = 2
  /\ AmountOf(pizzas_ordered, 8) = 1
  /\ Units(pizzas_ordered) = 3
  /\ order["total"] = 3350

AddressPrompts == {"street", "suburb", "town", "postcode", "phone"}

\* C8: an order that has reached the receipt has address and phone set
\* exactly when it is a delivery; the address and phone prompts are shown for
\* a delivery only; a delivery is at the selection prompt only with both set.
C8_AddressIffDelivery ==
  /\ pc \in AddressPrompts => order["is_delivery"]
  /\ (pc = "pizzas_ordered" /\ order["is_delivery"]) =>
       {"address", "phone"} \subseteq DOMAIN order
  /\ Completed =>
       /\ "address" \in DOMAIN order <=> order["is_delivery"]
       /\ "phone" \in DOMAIN order <=> order["is_delivery"]

\* C8 witness: a pick-up order at its receipt, without address or phone and
\* never asked for them.
C8_Witness ==
  /\ pc = "confirm"
  /\ Completed
  /\ ~order["is_delivery"]
  /\ DOMAIN order \cap {"address", "phone"} = {}
  /\ \A k \in DOMAIN accepted : accepted[k] \notin AddressPrompts

\* The fields of an order in the sequence in which they are accepted.
FieldSequence(is_delivery) ==
  << "is_delivery", "customer_name" >>
    \o (IF is_delivery
          THEN << "street", "suburb", "town", "postcode", "phone" >>
          ELSE << >>)
    \o << "pizzas_ordered", "receipt" >>

IsPrefix(a, b) == Len(a) <= Len(b) /\ a = SubSeq(b, 1, Len(a))

\* What follows the fields accepted so far: the next field prompt, or the
\* confirm prompt after the receipt.
ExpectedPrompt ==
  IF accepted = << >> THEN "is_delivery"
  ELSE LET fs == FieldSequence(order["is_delivery"])
       IN IF Len(accepted) < Len(fs) THEN fs[Len(accepted) + 1] ELSE "confirm"

\* C9: the fields accepted so far in an order are an initial part of the
\* sequence type, name, (delivery only: street, suburb, town, postcode,
\* phone), selection, receipt, each once; the prompt shown is the one for the
\* next field of that sequence, and the confirm prompt follows the receipt.
C9_FixedFieldSequence ==
  /\ accepted # << >> => IsPrefix(accepted, FieldSequence(order["is_delivery"]))
  /\ pc \in Prompts => pc = ExpectedPrompt

\* C9 witness: a delivery at its confirm prompt with all nine steps accepted.
C9_Witness ==
  /\ pc = "confirm"
  /\ order["is_delivery"]
  /\ accepted = FieldSequence(TRUE)

\* C10: the cancel token, in any letter case and with blanks around it,
\* typed at any validator prompt (the confirm prompt included) shows "ORDER
\* CANCELLED" and leaves the order cancelled; a cancelled order is never
\* shown as submitted and none of its fields is prompted again: its notice is
\* followed by the splash screen and then by the order-type prompt of an
\* order with nothing set.
C10_CancelRestarts ==
  [][ /\ \A raw \in CommonInputs :
           ( /\ pc \in Prompts
             /\ Typed(raw) = CANCEL_TOKEN(impl)
             /\ ReadAt(pc, raw) )
           => ( /\ pc' = "notice"
                /\ outcome' = "cancelled"
                /\ out' = << "ORDER CANCELLED" >> )
      /\ (pc = "notice" /\ outcome = "cancelled") =>
           (pc' = "splash" /\ outcome' = "cancelled")
      /\ (pc = "splash" /\ outcome = "cancelled") =>
           ( /\ pc' = "is_delivery"
             /\ outcome' = "none"
             /\ order' = Unset /\ addr' = Unset
             /\ pizzas_ordered' = << >> /\ accepted' = << >> ) ]_vars

\* C10 witness: an order cancelled at the suburb prompt, in the middle of
\* the address.
C10_Witness ==
  /\ pc = "notice"
  /\ outcome = "cancelled"
  /\ out = << "ORDER CANCELLED" >>
  /\ accepted = << "is_delivery", "customer_name", "street" >>

\* f was accepted in the current order.
Accepted(f) == \E k \in DOMAIN accepted : accepted[k] = f

\* The attributes an order holds once the fields in accepted are accepted.
AttributesSet ==
  { f \in {"is_delivery", "customer_name", "phone"} : Accepted(f) }
    \cup (IF Accepted("postcode") THEN {"address"} ELSE {})
    \cup (IF Accepted("receipt") THEN {"total"} ELSE {})

\* C11: an order starts with nothing set, whatever order came before it: at
\* its order-type prompt no type, name, address part, phone or line is set;
\* while it is built it holds exactly what was accepted for it, its selection
\* starts from no lines, and the step from the splash screen clears whatever
\* the previous order left.
C11_FreshOrder ==
  /\ [](pc = "is_delivery" =>
          /\ order = Unset /\ addr = Unset
          /\ pizzas_ordered = << >> /\ accepted = << >>
          /\ outcome = "none")
  /\ [](pc \in Prompts =>
          /\ DOMAIN order = AttributesSet
          /\ DOMAIN addr = IF Accepted("postcode") THEN {}
                           ELSE { f \in {"street", "suburb", "town"} : Accepted(f) }
          /\ Units(pizzas_ordered) > 0 => Accepted("customer_name"))
  /\ [][ /\ pc = "splash" =>
              ( /\ pc' = "is_delivery"
                /\ order' = Unset /\ addr' = Unset
                /\ pizzas_ordered' = << >> /\ accepted' = << >>
                /\ outcome' = "none" )
         /\ (pc # "pizzas_ordered" /\ pc' = "pizzas_ordered") =>
              (pizzas_ordered' = << >> /\ ordered_amount' = 1) ]_vars

\* C11 witness: a submitted delivery, with everything it collected, at the
\* splash screen from which the next order starts.
C11_Witness ==
  /\ pc = "splash"
  /\ outcome = "submitted"
  /\ {"customer_name", "address", "phone", "total"} \subseteq DOMAIN order
  /\ Units(pizzas_ordered) > 0

\* Every field an order of this type needs is set and its receipt is rendered.
ReadyToConfirm ==
  /\ accepted # << >>
  /\ accepted = FieldSequence(order["is_delivery"])
  /\ DOMAIN order = AttributesSet

\* C12: "ORDER SUBMITTED" is shown only by a step from the confirm prompt of
\* an order with every required field accepted and its receipt rendered, and
\* only for an answer of "y"; an order that has an outcome keeps it until the
\* next order starts.
C12_SubmittedOnlyAfterComplete ==
  /\ [][ /\ (outcome' = "submitted" /\ outcome # "submitted") =>
              ( /\ pc = "confirm" /\ pc' = "notice"
                /\ ReadyToConfirm
                /\ out' = << "ORDER SUBMITTED" >>
                /\ \E raw \in ConfirmInputs :
                     Typed(raw) = << "y" >> /\ read_confirm(raw) )
         /\ \A raw \in ConfirmInputs :
              (pc = "confirm" /\ read_confirm(raw) /\ Typed(raw) # << "y" >>)
                => outcome' # "submitted"
         /\ out' = << "ORDER SUBMITTED" >> => outcome' = "submitted"
         /\ outcome # "none" =>
              \/ outcome' = outcome
              \/ (pc = "splash" /\ outcome' = "none") ]_vars
  /\ [](outcome = "submitted" => ReadyToConfirm)
  /\ [](outcome # "none" => pc \in {"notice", "splash"})

\* C12 witness: a pick-up order shown as submitted.
C12_Witness ==
  /\ pc = "notice"
  /\ outcome = "submitted"
  /\ out = << "ORDER SUBMITTED" >>
  /\ ~order["is_delivery"]

\* C13: the exit token, in any letter case and with blanks around it, typed
\* at any validator prompt ends the program in that step: nothing is shown,
\* no outcome is given to the order, and no step follows.
C13_ExitTerminates ==
  [][ /\ \A raw \in CommonInputs :
           ( /\ pc \in Prompts
             /\ Typed(raw) = EXIT_TOKEN(impl)
             /\ ReadAt(pc, raw) )
           => ( /\ pc' = "exited"
                /\ out' = << >>
                /\ outcome' = "none"
                /\ UNCHANGED <<order, addr, pizzas_ordered, accepted>> )
      /\ pc # "exited" ]_vars

\* C13 witness: the program ended from the selection prompt with a pizza
\* selected.
C13_Witness ==
  /\ pc = "exited"
  /\ Units(pizzas_ordered) > 0
  /\ ~Accepted("pizzas_ordered")
  /\ outcome = "none"

\* C14: the program ends only by the exit token at a validator prompt: a
\* step that ends it is such a line, no other line at a prompt ends it, the
\* end-of-order box is followed by the splash screen and the splash screen by
\* a new order, and as long as the program has not ended it can take a line.
C14_EndsOnlyByExit ==
  /\ [][ /\ pc' = "exited" =>
              /\ pc \in Prompts
              /\ \E raw \in InputsAt(pc) :
                   Typed(raw) = EXIT_TOKEN(impl) /\ ReadAt(pc, raw)
         /\ pc \in Prompts =>
              \A raw \in InputsAt(pc) :
                (ReadAt(pc, raw) /\ Typed(raw) # EXIT_TOKEN(impl))
                  => pc' # "exited"
         /\ pc = "notice" => pc' = "splash"
         /\ pc = "splash" => pc' = "is_delivery" ]_vars
  /\ [](pc # "exited" => ENABLED Next)

\* C14 witness: the session loop is back at the splash screen after a
\* cancelled order.
C14_Witness ==
  /\ pc = "splash"
  /\ outcome = "cancelled"
  /\ accepted # << >>

\* C15: at every validator prompt a line that is empty once trimmed gets
\* "Required field." and the same prompt, and the cancel and exit tokens are
\* never taken as a value: they end the order or the program and set no
\* field, also where the grammar of the prompt matches the token.
C15_TokensBeforeGrammar ==
  [][ \A raw \in CommonInputs :
        (pc \in Prompts /\ ReadAt(pc, raw)) =>
          /\ Typed(raw) = << >> =>
               /\ pc' = pc
               /\ out' = << "Required field." >>
               /\ UNCHANGED <<order, addr, pizzas_ordered, ordered_amount,
                              accepted, outcome>>
          /\ Typed(raw) = CANCEL_TOKEN(impl) =>
               /\ pc' = "notice"
               /\ UNCHANGED <<order, addr, pizzas_ordered, accepted>>
          /\ Typed(raw) = EXIT_TOKEN(impl) =>
               /\ pc' = "exited"
               /\ UNCHANGED <<order, addr, pizzas_ordered, accepted>> ]_vars

\* C15 witness: the class program cancelled at the name prompt, whose grammar
\* matches the cancel token.
C15_Witness ==
  /\ impl = "class"
  /\ pc = "notice"
  /\ outcome = "cancelled"
  /\ accepted = << "is_delivery" >>
  /\ ReMatch(NAME_REGEX(impl), CANCEL_TOKEN(impl))

\* C16 (as claimed): at the order-type prompt "d" makes the order a delivery
\* and "p" a pick-up; every other line that reaches the grammar gets "Invalid
\* order type." and the same prompt, and sets nothing.
C16_OnlyDOrP ==
  [][ \A raw \in OrderTypeInputs :
        ( /\ pc = "is_delivery"
          /\ ReachesGrammar(raw)
          /\ read_is_delivery(raw) )
        => IF Typed(raw) \in { << "d" >>, << "p" >> }
             THEN /\ pc' = "customer_name"
                  /\ order' = Put(order, "is_delivery", Typed(raw) = << "d" >>)
             ELSE /\ pc' = "is_delivery"
                  /\ out' = << "Invalid order type." >>
                  /\ UNCHANGED order ]_vars

\* Search semantics: the grammar matches some part of s, wherever it begins.
ReSearch(regex, s) == Ends(regex, s, 1..(Len(s) + 1)) # {}

\* The positions of s at which a match of the grammar can begin.
MatchStarts(regex, s) ==
  { p \in 1..(Len(s) + 1) : Ends(regex, s, {p}) # {} }

\* C17 (as claimed): the validator accepts under search semantics: a line
\* that reaches the grammar is accepted whenever the grammar matches a part
\* of it, even one that does not begin at its first character.
C17_SearchSemantics ==
  pc \in Prompts =>
    \A raw \in InputsAt(pc) :
      (ReachesGrammar(raw) /\ ReSearch(RegexAt(pc), Typed(raw)))
        => fetch_input(impl, raw, RegexAt(pc), "").kind = "value"

\* C17 (amended): the validator accepts under match semantics: a line that
\* reaches the grammar is accepted exactly when the grammar matches from the
\* first character of the line; a match that begins later is not enough.
C17_MatchSemantics ==
  pc \in Prompts =>
    \A raw \in InputsAt(pc) :
      ReachesGrammar(raw) =>
        ( fetch_input(impl, raw, RegexAt(pc), "").kind = "value"
            <=> 1 \in MatchStarts(RegexAt(pc), Typed(raw)) )

\* C17 witness: the order-type prompt has refused a line in which the grammar
\* matches from a later character only ("dp").
C17_Witness ==
  /\ pc = "is_delivery"
  /\ out = << "Invalid order type." >>
  /\ \E raw \in OrderTypeInputs :
       /\ MatchStarts(ORDER_TYPE_REGEX, Typed(raw)) # {}
       /\ 1 \notin MatchStarts(ORDER_TYPE_REGEX, Typed(raw))
       /\ fetch_input(impl, raw, ORDER_TYPE_REGEX, "").kind = "error"

\* Longest line tried against the postcode grammar.
MaxProbeLen == 5

\* Every line of up to MaxProbeLen characters over two digits and a letter.
PostcodeProbes ==
  UNION { [1..n -> {"9", "0", "a"}] : n \in 1..MaxProbeLen }

FourDigits(s) == Len(s) = 4 /\ \A i \in 1..4 : s[i] \in Digit

\* C18: the postcode prompt accepts a line exactly when it is 4 digits: of
\* the lines tried, and of all lines of up to 5 characters over "9", "0" and
\* "a", those and only those are returned; an accepted postcode leads to the
\* phone prompt, a refused one to "Invalid postcode." and the same prompt.
C18_PostcodeFourDigits ==
  /\ [](pc = "postcode" =>
          \A raw \in PostcodeInputs \cup PostcodeProbes :
            ReachesGrammar(raw) =>
              ( fetch_input(impl, raw, POSTCODE_REGEX, "").kind = "value"
                  <=> FourDigits(Typed(raw)) ))
  /\ [][ \A raw \in PostcodeInputs :
           ( /\ pc = "postcode"
             /\ ReachesGrammar(raw)
             /\ read_postcode(raw) )
           => IF Typed(raw) = << "9", "0", "1", "8" >>
                THEN pc' = "phone" /\ Accepted("postcode")'
                ELSE /\ pc' = "postcode"
                     /\ out' = << "Invalid postcode." >>
                     /\ UNCHANGED <<order, addr, accepted>> ]_vars

\* C18 witness: the postcode "9018" has just been accepted.
C18_Witness ==
  /\ pc = "phone"
  /\ out = << >>
  /\ accepted[Len(accepted)] = "postcode"
  /\ IF impl = "class"
       THEN order["address"].postcode = << "9", "0", "1", "8" >>
       ELSE SubSeq(order["address"][3], Len(order["address"][3]) - 3,
                   Len(order["address"][3])) = << "9", "0", "1", "8" >>

\* A non-empty line of letters, spaces, hyphens and apostrophes.
OnlyNameCharacters(s) ==
  s # << >> /\ \A i \in 1..Len(s) : s[i] \in Lower \cup {" ", "-", "'"}

Separators == { << >> } \cup { << c >> : c \in Space \cup {"-"} }

AllDigits(s, from, to) == \A i \in from..to : s[i] \in Digit

\* The shape of a phone number: the trunk digit 0, or the prefix +64 and an
\* optional separator; a group of 2 digits (mobile) or 1 digit (landline);
\* an optional separator; 3 digits; an optional separator; 4 digits.
PhoneShape(s) ==
  \E pre \in { << "0" >> } \cup
             { << "+","6","4" >> \o sep : sep \in Separators } :
    \E g \in {1, 2} : \E s1 \in Separators : \E s2 \in Separators :
      LET a == Len(pre)
          b == a + g + Len(s1)
          c == b + 3 + Len(s2)
      IN /\ Len(s) = c + 4
         /\ SubSeq(s, 1, a) = pre
         /\ AllDigits(s, a + 1, a + g)
         /\ SubSeq(s, a + g + 1, b) = s1
         /\ AllDigits(s, b + 1, b + 3)
         /\ SubSeq(s, b + 4, c) = s2
         /\ AllDigits(s, c + 1, c + 4)

PhoneAccepted ==
  { << "+","6","4"," ","2","1"," ","1","2","3"," ","1","2","3","4" >>,
    << "0","2","1","-","1","2","3","-","1","2","3","4" >>,
    << "0","4"," ","1","2","3"," ","1","2","3","4" >> }

PhoneRejected ==
  { << "1","2","3"," ","1","2","3","4" >>,
    << "0","2","1","1","2","3","1","2","3","4","5" >> }

\* Further lines tried against the number grammar: numbers without the trunk
\* digit or prefix, with a doubled separator, a short or long last group, a
\* separator inside a group, and well-formed numbers written without
\* separators.
PhoneProbes ==
  { << "2","1"," ","1","2","3"," ","1","2","3","4" >>,
    << "6","4"," ","2","1"," ","1","2","3"," ","1","2","3","4" >>,
    << "4"," ","1","2","3"," ","1","2","3","4" >>,
    << "0","2","1"," "," ","1","2","3"," ","1","2","3","4" >>,
    << "0","2","1"," ","1","2","3"," ","1","2","3" >>,
    << "0","2","1"," ","1","2"," ","3","1","2","3","4" >>,
    << "0","2","1","_","1","2","3","_","1","2","3","4" >>,
    << "0","2","1","1","2","3","1","2","3","4" >>,
    << "0","4","1","2","3","1","2","3","4" >>,
    << "+","6","4","-","4","-","1","2","3","-","1","2","3","4" >>,
    << "+","6","4","2","1","1","2","3","1","2","3","4" >> }

\* C20: the phone prompt accepts a number only when it has the shape "0 or
\* +64, a 2- or 1-digit group, a 3-digit group, a 4-digit group, with at most
\* one space or hyphen at each boundary": every line it returns has the
\* shape; "+64 21 123 1234", "021-123-1234" and "04 123 1234" are stored as
\* the phone and lead to the selection; "123 1234" and "02112312345" get
\* "Invalid phone number." and the same prompt.
C20_PhoneShape ==
  /\ [](pc = "phone" =>
          \A raw \in PhoneInputs \cup PhoneProbes :
            ( /\ ReachesGrammar(raw)
              /\ fetch_input(impl, raw, NUMBER_REGEX, "").kind = "value" )
            => PhoneShape(Typed(raw)))
  /\ [][ \A raw \in PhoneAccepted \cup PhoneRejected :
           ( pc = "phone" /\ read_phone(raw) )
           => IF raw \in PhoneAccepted
                THEN /\ pc' = "pizzas_ordered"
                     /\ "phone" \in DOMAIN order'
                     /\ order'["phone"] = raw
                ELSE /\ pc' = "phone"
                     /\ out' = << "Invalid phone number." >>
                     /\ UNCHANGED <<order, accepted>> ]_vars

\* C20 witness: the number "+64 21 123 1234" has just been accepted.
C20_Witness ==
  /\ pc = "pizzas_ordered"
  /\ accepted[Len(accepted)] = "phone"
  /\ "phone" \in DOMAIN order
  /\ order["phone"] =
       << "+","6","4"," ","2","1"," ","1","2","3"," ","1","2","3","4" >>

\* The order object of the class program as the state holds it.
Self ==
  [order |-> order, item_subtotal |-> item_subtotal(pizzas_ordered)]

\* The step in which the selection loop is left and the receipt is printed.
Completes == ~Completed /\ Completed'

\* C21: in the class program, rendering the receipt of a completed order
\* changes no attribute of the order and, done twice, gives the same text;
\* the step that prints the receipt reads no line after the last selection,
\* goes straight to the confirm prompt, prints the text the order renders to,
\* and leaves the order as the total computation left it.
C21_RenderReadOnly ==
  /\ []((impl = "class" /\ Completed) =>
          LET first == Order_str(Self)
              second == Order_str(first.self)
          IN /\ first.self = Self
             /\ second.self = Self
             /\ second.receipt = first.receipt)
  /\ [][ (impl = "class" /\ Completes) =>
           /\ pc = "pizzas_ordered" /\ pc' = "confirm"
           /\ out' = Receipt(Self')
           /\ DOMAIN order' = DOMAIN order \cup {"total"}
           /\ \A k \in DOMAIN order : order'[k] = order[k]
           /\ order'["total"] =
                MenuCost(pizzas_ordered', MENU_SIZE)
                  + (IF order["is_delivery"] THEN 300 ELSE 0) ]_vars

\* C21 witness: the class program shows the receipt of a delivery with two
\* units of one pizza and one of another, 33.50 in total.
C21_Witness ==
  /\ impl = "class"
  /\ pc = "confirm"
  /\ Completed
  /\ order["is_delivery"]
  /\ out = Order_str(Self).receipt
  /\ Len(pizzas_ordered) = 2
  /\ Units(pizzas_ordered) = 3
  /\ out[Len(out)].label = "Total"
  /\ out[Len(out)].amount = << " ", "3", "3", ".", "5", "0" >>

\* Positions of the amount lines of the receipt rc that carry the label.
AmountLines(rc, label) ==
  { i \in DOMAIN rc : rc[i].kind = "amount" /\ rc[i].label = label }

\* Positions of the item lines of the receipt rc, in printing order.
ItemLines(rc) == { i \in DOMAIN rc : rc[i].kind = "item" }

\* C22 (as claimed): in both programs the receipt printed for a completed
\* order has one subtotal line showing the sum of unit price times quantity,
\* one total line, a delivery-surcharge line exactly for a delivery, and one
\* item line per pizza ordered that carries a multiplier exactly when the
\* quantity is above 1.
C22_ReceiptLines ==
  [][ Completes =>
        /\ Cardinality(AmountLines(out', "Subtotal")) = 1
        /\ \A i \in AmountLines(out', "Subtotal") :
             out'[i].amount = Money(MenuCost(pizzas_ordered', MENU_SIZE))
        /\ Cardinality(AmountLines(out', "Total")) = 1
        /\ (AmountLines(out', "Delivery surcharge") # {})
             <=> order'["is_delivery"]
        /\ Cardinality(ItemLines(out')) = Len(pizzas_ordered')
        /\ \A k \in 1..Len(pizzas_ordered') :
             \E i \in ItemLines(out') :
               /\ Cardinality({ j \in ItemLines(out') : j < i }) = k - 1
               /\ (out'[i].value # << >>) <=> (pizzas_ordered'[k].amount > 1)
    ]_vars

\* C23 (as claimed): the exit token ends the program wherever the console
\* waits for a line: at every validator prompt, and at the "Press Enter key
\* to continue" waits of the splash screen and of the end-of-order notice.
C23_ExitAnywhere ==
  [][ /\ \A raw \in CommonInputs :
           ( /\ pc \in Prompts
             /\ Typed(raw) = EXIT_TOKEN(impl)
             /\ ReadAt(pc, raw) )
           => pc' = "exited"
      /\ \A raw \in CommonInputs :
           ( /\ pc \in {"splash", "notice"}
             /\ Typed(raw) = EXIT_TOKEN(impl) )
           => pc' = "exited" ]_vars

\* C24: with an operator who never types the exit token and does not type
\* refused lines forever, every order that has started gets an outcome,
\* submitted or cancelled; the selection loop is left by the step that takes
\* the fifth pizza.
C24_OrdersEnd ==
  /\ (pc \in Prompts) ~>
       (pc = "notice" /\ outcome \in {"submitted", "cancelled"})
  /\ [][ ( /\ pc = "pizzas_ordered"
           /\ ordered_amount = MAX_ORDER_SIZE
           /\ ordered_amount' = MAX_ORDER_SIZE + 1 )
         => pc' = "confirm" ]_vars

\* C24 witness: an order of five pizzas has been submitted.
C24_Witness ==
  /\ pc = "notice"
  /\ outcome = "submitted"
  /\ Units(pizzas_ordered) = MAX_ORDER_SIZE
  /\ accepted = FieldSequence(order["is_delivery"])

====
